---------------------------- MODULE Spec2Model ----------------------------
(***************************************************************************)
(* ChatFusion Pro (src/app.py): the DatabaseManager data layer over one    *)
(* shared SQLite file, driven by several sessions.                         *)
(*                                                                         *)
(* Every DatabaseManager method opens its own connection.  SQLite admits   *)
(* one writer at a time: a connection that has executed INSERT or UPDATE   *)
(* holds the write lock until it commits or is closed, and what it wrote   *)
(* is invisible to the other connections until then.  A write attempted    *)
(* on another connection meanwhile waits (busy timeout, 5 s) and then      *)
(* raises sqlite3.OperationalError.  The model keeps the committed tables, *)
(* the lock holder, the holder's uncommitted tables, and each session's    *)
(* position inside the method it is running.  The pages of ChatApplication *)
(* are modelled as whole reruns over each session's st.session_state.      *)
(***************************************************************************)
EXTENDS Naturals, Sequences, FiniteSets

VARIABLES
    users,            \* committed rows of table users
    messages,         \* committed rows of table messages
    contacts,         \* committed rows of table contacts
    friend_requests,  \* committed rows of table friend_requests
    notifications,    \* committed rows of table notifications
    groups,           \* committed rows of table groups
    lock,             \* the session whose connection holds the write lock
    tx,               \* the lock holder's uncommitted tables
    pc,               \* each session's position
    call,             \* the method a session is running, with its arguments
    ret,              \* how the session's last call ended
    clock,            \* the time of day; datetime.now() moves it on
    accepts,          \* history: the requests an 'accepted' response has run on
    session_state     \* st.session_state of each browser session

vars == <<users, messages, contacts, friend_requests, notifications, groups,
          lock, tx, pc, call, ret, clock, accepts, session_state>>

(***************************************************************************)
(* Bounds and input sets                                                   *)
(***************************************************************************)
MaxUsers == 5
MaxMessages == 3
MaxDirect == 51
MaxGroups == 2
MaxRows == 9
MaxClock == 2


\* an id that no users row has
UnknownUserId == "u0"

\* (sender_id, receiver_id) of the friend requests sent: alice to bob, and
\* alice to the unknown id.  UNIQUE(sender_id, receiver_id) bounds the table.
FriendPairs == {<<"u1", "u2">>, <<"u1", UnknownUserId>>}
RequestIds == 1 .. Cardinality(FriendPairs)
Responses == {"accepted", "rejected", "pending"}
Sessions == {"s1", "s2"}
NoSession == "none"

Usernames == {"alice", "eve", "frank"}
Emails == {"alice@example.com", "eve@example.com", "frank@example.com"}
Passwords == {"password123", "hunter2"}
Statuses == {"online", "offline"}

\* demo_users of create_demo_data, in insertion order
demo_users ==
    << [username |-> "alice",   email |-> "alice@example.com",   password |-> "password123"],
       [username |-> "bob",     email |-> "bob@example.com",     password |-> "password123"],
       [username |-> "charlie", email |-> "charlie@example.com", password |-> "password123"],
       [username |-> "diana",   email |-> "diana@example.com",   password |-> "password123"] >>

(***************************************************************************)
(* Helpers                                                                 *)
(***************************************************************************)
\* hashlib.sha256(password.encode()).hexdigest(): a digest, equal for equal
\* passwords and different for different ones
sha256(password) == <<"sha256", password>>

\* str(uuid.uuid4()) for a new users row: an id no row has
uuids == <<"u1", "u2", "u3", "u4", "u5", "u6", "u7", "u8">>
new_user_id(table) == uuids[Cardinality(table) + 1]

\* Python's None
None == "None"

NoCall == [op |-> "none"]
NoRet == [kind |-> "none", val |-> "", id |-> ""]
Returned(v, i) == [kind |-> "return", val |-> v, id |-> i]
Raised(e) == [kind |-> "raise", val |-> e, id |-> ""]
NoTx == [users |-> {}, friend_requests |-> {}, contacts |-> {}]

\* a faulty variant, for comparison: the row keeps a digest of the username instead of the password
user_row_wrong_digest(user_id, username, email, password) ==
    [user_id |-> user_id, username |-> username, email |-> email,
     password_hash |-> sha256(username), online_status |-> "online",
     last_seen |-> clock]

\* the users row INSERT INTO users (...) writes; online_status defaults to
\* "online" and last_seen to CURRENT_TIMESTAMP
user_row(user_id, username, email, password) ==
    [user_id |-> user_id, username |-> username, email |-> email,
     password_hash |-> sha256(password), online_status |-> "online",
     last_seen |-> clock]

\* a faulty variant, for comparison: username is not declared UNIQUE
users_conflict_no_username(table, row) ==
    \E u \in table : u.user_id = row.user_id \/ u.email = row.email

\* PRIMARY KEY (user_id), UNIQUE (username), UNIQUE (email) of table users
users_conflict(table, row) ==
    \E u \in table : \/ u.user_id = row.user_id
                     \/ u.username = row.username
                     \/ u.email = row.email

\* a faulty variant, for comparison: INSERT OR REPLACE, a stored demo user is
\* written again under a new id
RECURSIVE insert_demo_users_or_replace(_, _)
insert_demo_users_or_replace(table, i) ==
    IF i > Len(demo_users) THEN [table |-> table, failed |-> FALSE]
    ELSE LET row == user_row(uuids[Len(demo_users) + i], demo_users[i].username,
                             demo_users[i].email, demo_users[i].password)
         IN  insert_demo_users_or_replace(
                 {u \in table : u.username # row.username} \cup {row}, i + 1)

\* create_demo_data's loop: the rows inserted before the first failing INSERT,
\* and whether an INSERT failed
RECURSIVE insert_demo_users(_, _)
insert_demo_users(table, i) ==
    IF i > Len(demo_users) THEN [table |-> table, failed |-> FALSE]
    ELSE LET row == user_row(new_user_id(table), demo_users[i].username,
                             demo_users[i].email, demo_users[i].password)
         IN  IF users_conflict(table, row)
             THEN [table |-> table, failed |-> TRUE]
             ELSE insert_demo_users(table \cup {row}, i + 1)

\* init_session_state's defaults; last_refresh = time.time() is kept as
\* refresh_due, whether more than 10 seconds have passed since last_refresh
init_session_state ==
    [user |-> None, active_chat |-> None, contacts |-> << >>, notifications |-> {},
     friend_requests |-> {}, groups |-> {}, refresh_due |-> FALSE]

Init ==
    /\ users = {}
    /\ messages = {}
    /\ contacts = {}
    /\ friend_requests = {}
    /\ notifications = {}
    /\ groups = {}
    /\ lock = NoSession
    /\ tx = NoTx
    /\ pc = [s \in Sessions |-> "new"]
    /\ call = [s \in Sessions |-> NoCall]
    /\ ret = [s \in Sessions |-> NoRet]
    /\ clock = 0
    /\ accepts = {}
    /\ session_state = [s \in Sessions |-> init_session_state]

tables == <<users, messages, contacts, friend_requests, notifications, groups>>

(***************************************************************************)
(* DatabaseManager.__init__: init_database, then create_demo_data          *)
(***************************************************************************)
\* CREATE TABLE IF NOT EXISTS ..., then create_demo_data's SELECT COUNT(*)
init_database(s) ==
    /\ pc[s] \in {"new", "idle"}
    /\ call' = [call EXCEPT ![s] = [op |-> "init_database"]]
    /\ IF users = {}
       THEN /\ pc' = [pc EXCEPT ![s] = "demo_insert"]
            /\ ret' = [ret EXCEPT ![s] = NoRet]
       ELSE /\ pc' = [pc EXCEPT ![s] = "done"]
            /\ ret' = [ret EXCEPT ![s] = Returned("None", "")]
    /\ UNCHANGED <<tables, lock, tx, clock, accepts, session_state>>

\* the four INSERTs and the commit; a failing INSERT raises IntegrityError out
\* of the constructor with the connection left open, its transaction pending
create_demo_data(s) ==
    /\ pc[s] = "demo_insert"
    /\ lock = NoSession
    /\ LET r == insert_demo_users(users, 1)
       IN  IF r.failed
           THEN /\ lock' = s
                /\ tx' = [NoTx EXCEPT !.users = r.table]
                /\ pc' = [pc EXCEPT ![s] = "raised"]
                /\ ret' = [ret EXCEPT ![s] = Raised("IntegrityError")]
                /\ UNCHANGED users
           ELSE /\ users' = r.table
                /\ pc' = [pc EXCEPT ![s] = "done"]
                /\ ret' = [ret EXCEPT ![s] = Returned("None", "")]
                /\ UNCHANGED <<lock, tx>>
    /\ UNCHANGED <<messages, contacts, friend_requests, notifications, groups,
                   call, clock, accepts, session_state>>

(***************************************************************************)
(* Users                                                                   *)
(***************************************************************************)
\* a faulty variant, for comparison: INSERT OR REPLACE semantics, a duplicate overwrites the stored hash
create_user_overwrite(s, username, email, password) ==
    /\ pc[s] = "idle"
    /\ lock = NoSession
    /\ call' = [call EXCEPT ![s] = [op |-> "create_user", username |-> username,
                                    email |-> email, password |-> password]]
    /\ pc' = [pc EXCEPT ![s] = "done"]
    /\ LET row == user_row(new_user_id(users), username, email, password)
           old == {u \in users : u.username = username \/ u.email = email}
       IN  IF old # {}
           THEN /\ users' = {IF u \in old
                                THEN [u EXCEPT !.password_hash = sha256(password)]
                                ELSE u : u \in users}
                /\ ret' = [ret EXCEPT ![s] = Returned("None", "")]
           ELSE /\ users' = users \cup {row}
                /\ ret' = [ret EXCEPT ![s] = Returned("User", row.user_id)]
    /\ UNCHANGED <<messages, contacts, friend_requests, notifications, groups,
                   lock, tx, clock, accepts, session_state>>

\* INSERT INTO users, commit, return User; IntegrityError returns None
create_user(s, username, email, password) ==
    /\ pc[s] = "idle"
    /\ lock = NoSession
    /\ call' = [call EXCEPT ![s] = [op |-> "create_user", username |-> username,
                                    email |-> email, password |-> password]]
    /\ pc' = [pc EXCEPT ![s] = "done"]
    /\ LET row == user_row(new_user_id(users), username, email, password)
       IN  IF users_conflict(users, row)
           THEN /\ ret' = [ret EXCEPT ![s] = Returned("None", "")]
                /\ UNCHANGED users
           ELSE /\ Cardinality(users) < MaxUsers
                /\ users' = users \cup {row}
                /\ ret' = [ret EXCEPT ![s] = Returned("User", row.user_id)]
    /\ UNCHANGED <<messages, contacts, friend_requests, notifications, groups,
                   lock, tx, clock, accepts, session_state>>

\* a faulty variant, for comparison: the SELECT does not compare the hash
authenticate_row_any_password(table, username, password) ==
    {u \in table : u.username = username}

\* SELECT ... WHERE username = ? AND password_hash = ?  (fetchone)
authenticate_row(table, username, password) ==
    {u \in table : u.username = username /\ u.password_hash = sha256(password)}

\* on a row: UPDATE users SET last_seen = CURRENT_TIMESTAMP, online_status =
\* 'online' WHERE user_id = ?, commit, return User; else return None
authenticate_user(s, username, password) ==
    /\ pc[s] = "idle"
    /\ call' = [call EXCEPT ![s] = [op |-> "authenticate_user",
                                    username |-> username, password |-> password]]
    /\ pc' = [pc EXCEPT ![s] = "done"]
    /\ LET rows == authenticate_row(users, username, password)
       IN  IF rows = {}
           THEN /\ ret' = [ret EXCEPT ![s] = Returned("None", "")]
                /\ UNCHANGED users
           ELSE /\ lock = NoSession
                /\ LET row == CHOOSE u \in rows : TRUE
                   IN  /\ users' = {IF u.user_id = row.user_id
                                       THEN [u EXCEPT !.online_status = "online",
                                                      !.last_seen = clock]
                                       ELSE u : u \in users}
                       /\ ret' = [ret EXCEPT ![s] = Returned("User", row.user_id)]
    /\ UNCHANGED <<messages, contacts, friend_requests, notifications, groups,
                   lock, tx, clock, accepts, session_state>>

\* the rows after UPDATE users SET online_status = ?, last_seen =
\* CURRENT_TIMESTAMP WHERE user_id = ?
set_online_status(table, user_id, status) ==
    {IF u.user_id = user_id
        THEN [u EXCEPT !.online_status = status, !.last_seen = clock]
        ELSE u : u \in table}

\* update_user_status: the UPDATE and the commit
update_user_status(s, user_id, status) ==
    /\ pc[s] = "idle"
    /\ lock = NoSession
    /\ call' = [call EXCEPT ![s] = [op |-> "update_user_status",
                                    user_id |-> user_id, status |-> status]]
    /\ pc' = [pc EXCEPT ![s] = "done"]
    /\ ret' = [ret EXCEPT ![s] = Returned("None", "")]
    /\ users' = set_online_status(users, user_id, status)
    /\ UNCHANGED <<messages, contacts, friend_requests, notifications, groups,
                   lock, tx, clock, accepts, session_state>>

\* time passes between two statements: CURRENT_TIMESTAMP reads later
tick ==
    /\ clock < MaxClock
    /\ clock' = clock + 1
    /\ UNCHANGED <<tables, lock, tx, pc, call, ret, accepts, session_state>>

(***************************************************************************)
(* Notifications, friend requests and contacts                             *)
(***************************************************************************)
user_exists(user_id) == \E u \in users : u.user_id = user_id

\* get_user_by_id(user_id).username
username_of(user_id) == (CHOOSE u \in users : u.user_id = user_id).username

\* create_notification's INSERT INTO notifications, under a fresh uuid
create_notification(table, user_id, notification_type) ==
    table \cup {[notification_id |-> Cardinality(table) + 1, user_id |-> user_id,
                 type |-> notification_type, is_read |-> FALSE]}

\* a faulty variant, for comparison: the pair is compared in either direction
friend_request_exists_either_way(sender_id, receiver_id) ==
    \E r \in friend_requests :
        \/ (r.sender_id = sender_id /\ r.receiver_id = receiver_id)
        \/ (r.sender_id = receiver_id /\ r.receiver_id = sender_id)

\* a faulty variant, for comparison: reading a notification dismisses it
notification_dismissed(table, notification_id) ==
    {n \in table : n.notification_id # notification_id}

\* UPDATE notifications SET is_read = TRUE WHERE notification_id = ?
notification_read(table, notification_id) ==
    {IF n.notification_id = notification_id THEN [n EXCEPT !.is_read = TRUE] ELSE n :
        n \in table}

\* mark_notification_read: the UPDATE and the commit
mark_notification_read(s, notification_id) ==
    /\ pc[s] = "idle"
    /\ lock = NoSession
    /\ call' = [call EXCEPT ![s] = [op |-> "mark_notification_read",
                                    notification_id |-> notification_id]]
    /\ notifications' = notification_read(notifications, notification_id)
    /\ pc' = [pc EXCEPT ![s] = "done"]
    /\ ret' = [ret EXCEPT ![s] = Returned("None", "")]
    /\ UNCHANGED <<users, messages, contacts, friend_requests, groups,
                   lock, tx, clock, accepts, session_state>>

\* UNIQUE(sender_id, receiver_id) of table friend_requests
friend_request_exists(sender_id, receiver_id) ==
    \E r \in friend_requests : r.sender_id = sender_id /\ r.receiver_id = receiver_id

\* INSERT INTO friend_requests and commit; IntegrityError returns False
send_friend_request(s, sender_id, receiver_id) ==
    /\ pc[s] = "idle"
    /\ lock = NoSession
    /\ call' = [call EXCEPT ![s] = [op |-> "send_friend_request",
                                    sender_id |-> sender_id, receiver_id |-> receiver_id]]
    /\ IF friend_request_exists(sender_id, receiver_id)
       THEN /\ pc' = [pc EXCEPT ![s] = "done"]
            /\ ret' = [ret EXCEPT ![s] = Returned("False", "")]
            /\ UNCHANGED friend_requests
       ELSE /\ friend_requests' = friend_requests \cup
                   {[id |-> Cardinality(friend_requests) + 1, sender_id |-> sender_id,
                     receiver_id |-> receiver_id, status |-> "pending"]}
            /\ pc' = [pc EXCEPT ![s] = "sfr_notify"]
            /\ ret' = [ret EXCEPT ![s] = NoRet]
    /\ UNCHANGED <<users, messages, contacts, notifications, groups, lock, tx, clock,
                   accepts, session_state>>

\* sender = get_user_by_id(sender_id); if sender: create_notification(...);
\* conn.close(); return True
send_friend_request_notify(s) ==
    /\ pc[s] = "sfr_notify"
    /\ IF user_exists(call[s].sender_id)
       THEN /\ lock = NoSession
            /\ notifications' = create_notification(notifications, call[s].receiver_id,
                                                    "friend_request")
       ELSE UNCHANGED notifications
    /\ pc' = [pc EXCEPT ![s] = "done"]
    /\ ret' = [ret EXCEPT ![s] = Returned("True", "")]
    /\ UNCHANGED <<users, messages, contacts, friend_requests, groups, lock, tx, call,
                   clock, accepts, session_state>>

\* a faulty variant, for comparison: the SELECT has no WHERE clause
fetch_request_any(table, request_id) == table

\* SELECT sender_id, receiver_id FROM friend_requests WHERE id = ?
fetch_request(table, request_id) == {r \in table : r.id = request_id}

\* request = cursor.fetchone(); if not request: conn.close(); return False
\* (kept for the claims only: was, the status the row had at the call, and
\* again, whether an 'accepted' response to the request had finished by then)
respond_to_friend_request(s, request_id, response) ==
    /\ pc[s] = "idle"
    /\ LET found == fetch_request(friend_requests, request_id)
       IN  IF found = {}
           THEN /\ call' = [call EXCEPT ![s] =
                      [op |-> "respond_to_friend_request", request_id |-> request_id,
                       response |-> response, sender_id |-> None, receiver_id |-> None,
                       was |-> "missing", again |-> FALSE]]
                /\ pc' = [pc EXCEPT ![s] = "done"]
                /\ ret' = [ret EXCEPT ![s] = Returned("False", "")]
           ELSE LET request == CHOOSE r \in found : TRUE
                IN  /\ call' = [call EXCEPT ![s] =
                          [op |-> "respond_to_friend_request", request_id |-> request_id,
                           response |-> response, sender_id |-> request.sender_id,
                           receiver_id |-> request.receiver_id, was |-> request.status,
                           again |-> request_id \in accepts]]
                    /\ pc' = [pc EXCEPT ![s] = "respond_update"]
                    /\ ret' = [ret EXCEPT ![s] = NoRet]
    /\ UNCHANGED <<tables, lock, tx, clock, accepts, session_state>>

\* a faulty variant, for comparison: the UPDATE has no WHERE clause
set_request_status_everywhere(table, request_id, response) ==
    {[r EXCEPT !.status = response] : r \in table}

\* UPDATE friend_requests SET status = ? WHERE id = ?
set_request_status(table, request_id, response) ==
    {IF r.id = request_id THEN [r EXCEPT !.status = response] ELSE r : r \in table}

\* a faulty variant, for comparison: only the sender's direction is inserted
contact_rows_one_way(table, sender_id, receiver_id) ==
    {[id |-> Cardinality(table) + 1, user_id |-> sender_id, contact_id |-> receiver_id,
      status |-> "accepted", is_blocked |-> FALSE, is_favorite |-> FALSE]}

\* the rows of INSERT INTO contacts ... VALUES (?, ?, 'accepted'), (?, ?, 'accepted')
contact_rows(table, sender_id, receiver_id) ==
    {[id |-> Cardinality(table) + 1, user_id |-> sender_id, contact_id |-> receiver_id,
      status |-> "accepted", is_blocked |-> FALSE, is_favorite |-> FALSE],
     [id |-> Cardinality(table) + 2, user_id |-> receiver_id, contact_id |-> sender_id,
      status |-> "accepted", is_blocked |-> FALSE, is_favorite |-> FALSE]}

\* UNIQUE(user_id, contact_id) of table contacts: the two-row INSERT fails as a
\* whole when either pair is stored or the two pairs are one
contacts_conflict(table, sender_id, receiver_id) ==
    \/ sender_id = receiver_id
    \/ \E c \in table : \/ c.user_id = sender_id /\ c.contact_id = receiver_id
                        \/ c.user_id = receiver_id /\ c.contact_id = sender_id

count_accept(s) ==
    IF call[s].response = "accepted" THEN accepts \cup {call[s].request_id}
                                     ELSE accepts

\* the UPDATE and, for 'accepted', the INSERT INTO contacts.  A response other
\* than 'accepted', or an INSERT that fails ("Already friends"), goes on to
\* conn.commit(); return True.  After a successful INSERT the transaction
\* stays open over get_user_by_id and create_notification.
respond_update(s) ==
    /\ pc[s] = "respond_update"
    /\ lock = NoSession
    /\ LET c == call[s]
           updated == set_request_status(friend_requests, c.request_id, c.response)
       IN  IF c.response = "accepted"
              /\ ~contacts_conflict(contacts, c.sender_id, c.receiver_id)
           THEN /\ lock' = s
                /\ tx' = [NoTx EXCEPT
                            !.friend_requests = updated,
                            !.contacts = contacts \cup
                                contact_rows(contacts, c.sender_id, c.receiver_id)]
                /\ pc' = [pc EXCEPT ![s] = "respond_notify"]
                /\ UNCHANGED <<friend_requests, ret, accepts>>
           ELSE /\ friend_requests' = updated
                /\ pc' = [pc EXCEPT ![s] = "done"]
                /\ ret' = [ret EXCEPT ![s] = Returned("True", "")]
                /\ accepts' = count_accept(s)
                /\ UNCHANGED <<lock, tx>>
    /\ UNCHANGED <<users, messages, contacts, notifications, groups, call, clock,
                   session_state>>

\* receiver = get_user_by_id(receiver_id); if receiver: create_notification(...).
\* create_notification writes on a connection of its own while this method's
\* connection holds the write lock: its INSERT waits out the busy timeout and
\* raises OperationalError, which is no IntegrityError and leaves the method
\* with the connection open and the transaction uncommitted.  Without a
\* receiver row: conn.commit(); conn.close(); return True.
respond_notify(s) ==
    /\ pc[s] = "respond_notify"
    /\ accepts' = count_accept(s)
    /\ IF user_exists(call[s].receiver_id)
       THEN /\ lock = s
            /\ pc' = [pc EXCEPT ![s] = "raised"]
            /\ ret' = [ret EXCEPT ![s] = Raised("OperationalError")]
            /\ UNCHANGED <<tables, lock, tx>>
       ELSE /\ friend_requests' = tx.friend_requests
            /\ contacts' = tx.contacts
            /\ lock' = NoSession
            /\ tx' = NoTx
            /\ pc' = [pc EXCEPT ![s] = "done"]
            /\ ret' = [ret EXCEPT ![s] = Returned("True", "")]
            /\ UNCHANGED <<users, messages, notifications, groups>>
    /\ UNCHANGED <<call, clock, session_state>>

\* get_friend_requests: friend_requests JOIN users ON sender_id = user_id
\* WHERE receiver_id = ? AND status = 'pending', as the set of rows
get_friend_requests(user_id) ==
    {r \in friend_requests : /\ r.receiver_id = user_id
                             /\ r.status = "pending"
                             /\ user_exists(r.sender_id)}

\* ORDER BY of get_user_contacts on u.username (BINARY collation)
username_order == <<"alice", "bob", "charlie", "diana", "eve", "frank">>
username_rank(username) == CHOOSE i \in 1 .. Len(username_order) : username_order[i] = username

\* a faulty variant, for comparison: ORDER BY c.is_favorite DESC, u.username DESC
contact_before_descending(c, d) ==
    \/ c.is_favorite /\ ~d.is_favorite
    \/ /\ c.is_favorite = d.is_favorite
       /\ username_rank(username_of(c.contact_id)) > username_rank(username_of(d.contact_id))

\* c.is_favorite DESC, u.username
contact_before(c, d) ==
    \/ c.is_favorite /\ ~d.is_favorite
    \/ /\ c.is_favorite = d.is_favorite
       /\ username_rank(username_of(c.contact_id)) < username_rank(username_of(d.contact_id))

RECURSIVE contacts_in_order(_)
contacts_in_order(rows) ==
    IF rows = {} THEN << >>
    ELSE LET first == CHOOSE c \in rows : \A d \in rows \ {c} : contact_before(c, d)
         IN  <<first.contact_id>> \o contacts_in_order(rows \ {first})

\* get_user_contacts: contacts JOIN users ON contact_id = user_id WHERE user_id = ?
\* AND is_blocked = FALSE AND status = 'accepted', as the list of contact ids
get_user_contacts(user_id) ==
    contacts_in_order({c \in contacts : /\ c.user_id = user_id
                                        /\ ~c.is_blocked
                                        /\ c.status = "accepted"
                                        /\ user_exists(c.contact_id)})

(***************************************************************************)
(* Messages                                                                *)
(***************************************************************************)
\* message_id = str(uuid.uuid4()); timestamp = datetime.now().  Each reading
\* of the clock is later than the one before; the reading also stands for the
\* fresh message_id.
send_message(s, sender_id, recipient_id, group_id) ==
    /\ pc[s] = "idle"
    /\ clock' = clock + 1
    /\ call' = [call EXCEPT ![s] = [op |-> "send_message", sender_id |-> sender_id,
                                    recipient_id |-> recipient_id, group_id |-> group_id,
                                    timestamp |-> clock + 1]]
    /\ pc' = [pc EXCEPT ![s] = "sm_insert"]
    /\ ret' = [ret EXCEPT ![s] = NoRet]
    /\ UNCHANGED <<tables, lock, tx, accepts, session_state>>

\* a faulty variant, for comparison: the row is stored as delivered
message_row_delivered(c) ==
    [message_id |-> c.timestamp, sender_id |-> c.sender_id,
     recipient_id |-> c.recipient_id, group_id |-> c.group_id,
     timestamp |-> c.timestamp, status |-> "delivered", is_deleted |-> FALSE]

\* the row of INSERT INTO messages (message_id, sender_id, recipient_id,
\* group_id, content, message_type, timestamp): the arguments as given; status
\* defaults to "sent" and is_deleted to FALSE
message_row(c) ==
    [message_id |-> c.timestamp, sender_id |-> c.sender_id,
     recipient_id |-> c.recipient_id, group_id |-> c.group_id,
     timestamp |-> c.timestamp, status |-> "sent", is_deleted |-> FALSE]

\* a faulty variant, for comparison: the test is "recipient_id is not None"
truth_not_none(value) == value # None

\* Python's truth value of an optional string, as in "if recipient_id and ...":
\* None and the empty string are false
truth(value) == value \notin {None, ""}

\* INSERT INTO messages ...; conn.commit().  Without a recipient other than
\* the sender: conn.close(); return Message
send_message_insert(s) ==
    /\ pc[s] = "sm_insert"
    /\ lock = NoSession
    /\ messages' = messages \cup {message_row(call[s])}
    /\ IF truth(call[s].recipient_id) /\ call[s].recipient_id # call[s].sender_id
       THEN /\ pc' = [pc EXCEPT ![s] = "sm_notify"]
            /\ UNCHANGED ret
       ELSE /\ pc' = [pc EXCEPT ![s] = "done"]
            /\ ret' = [ret EXCEPT ![s] = Returned("Message", "")]
    /\ UNCHANGED <<users, contacts, friend_requests, notifications, groups, lock, tx, call,
                   clock, accepts, session_state>>

\* create_notification(recipient_id, ..., "message"); conn.close(); return Message
send_message_notify(s) ==
    /\ pc[s] = "sm_notify"
    /\ lock = NoSession
    /\ notifications' = create_notification(notifications, call[s].recipient_id, "message")
    /\ pc' = [pc EXCEPT ![s] = "done"]
    /\ ret' = [ret EXCEPT ![s] = Returned("Message", "")]
    /\ UNCHANGED <<users, messages, contacts, friend_requests, groups, lock, tx, call,
                   clock, accepts, session_state>>

\* WHERE (sender_id = ? AND recipient_id = ?) OR (sender_id = ? AND recipient_id = ?)
\* with (user_id, contact_id, contact_id, user_id)
conversation(user_id, contact_id) ==
    {m \in messages : \/ m.sender_id = user_id /\ m.recipient_id = contact_id
                      \/ m.sender_id = contact_id /\ m.recipient_id = user_id}

\* ORDER BY timestamp ASC
RECURSIVE by_timestamp(_)
by_timestamp(rows) ==
    IF rows = {} THEN << >>
    ELSE LET first == CHOOSE m \in rows : \A n \in rows : m.timestamp <= n.timestamp
         IN  <<first>> \o by_timestamp(rows \ {first})

\* LIMIT ?
first_rows(seq, limit) == SubSeq(seq, 1, IF limit < Len(seq) THEN limit ELSE Len(seq))

\* a faulty variant, for comparison: only the messages user_id sent to contact_id
get_messages_sent_only(user_id, contact_id, limit) ==
    first_rows(by_timestamp({m \in messages : /\ m.sender_id = user_id
                                              /\ m.recipient_id = contact_id}), limit)

\* get_messages(user_id, contact_id, limit): the rows in the order returned
get_messages(user_id, contact_id, limit) ==
    first_rows(by_timestamp(conversation(user_id, contact_id)), limit)

\* limit: int = 50
DefaultLimit == 50

(***************************************************************************)
(* Groups                                                                  *)
(***************************************************************************)
\* The text of an id, character by character.  uuid4 texts are as long as
\* each other; the ids here are shorter, one of them inside another, and one
\* with a character that LIKE reads as a wildcard.
text_of(id) ==
    CASE id = "u1"  -> <<"u", "1">>
      [] id = "u2"  -> <<"u", "2">>
      [] id = "u3"  -> <<"u", "3">>
      [] id = "u11" -> <<"u", "1", "1">>
      [] id = "u_1" -> <<"u", "_", "1">>

GroupUserIds == {"u1", "u2", "u3", "u11", "u_1"}

id_of(text) == CHOOSE id \in GroupUserIds : text_of(id) = text

quote == "\""

\* json.dumps(list of str): ["a", "b"]
RECURSIVE json_dumps_items(_)
json_dumps_items(ids) ==
    IF ids = << >> THEN << >>
    ELSE <<quote>> \o text_of(Head(ids)) \o <<quote>>
         \o (IF Tail(ids) = << >> THEN << >> ELSE <<",", " ">>)
         \o json_dumps_items(Tail(ids))

json_dumps(ids) == <<"[">> \o json_dumps_items(ids) \o <<"]">>

\* json.loads of such a text: the strings between the quotes, in order
RECURSIVE json_loads_from(_, _, _, _)
json_loads_from(text, inside, item, items) ==
    IF text = << >> THEN items
    ELSE IF Head(text) = quote
         THEN IF inside THEN json_loads_from(Tail(text), FALSE, << >>, Append(items, id_of(item)))
                        ELSE json_loads_from(Tail(text), TRUE, << >>, items)
         ELSE IF inside THEN json_loads_from(Tail(text), TRUE, Append(item, Head(text)), items)
                        ELSE json_loads_from(Tail(text), FALSE, item, items)

json_loads(text) == json_loads_from(text, FALSE, << >>, << >>)

\* json_extract(member_ids, '$'): SQLite returns the array as minified JSON
\* text, without the blanks json.dumps puts after the commas
RECURSIVE json_extract_from(_, _)
json_extract_from(text, inside) ==
    IF text = << >> THEN << >>
    ELSE IF Head(text) = quote
         THEN <<quote>> \o json_extract_from(Tail(text), ~inside)
         ELSE IF Head(text) = " " /\ ~inside
              THEN json_extract_from(Tail(text), inside)
              ELSE <<Head(text)>> \o json_extract_from(Tail(text), inside)

json_extract(text) == json_extract_from(text, FALSE)

\* text LIKE pattern: % matches any run of characters, _ any one character,
\* any other character itself (LIKE also ignores the case of ASCII letters;
\* the texts here are in lower case)
RECURSIVE like(_, _)
like(text, pattern) ==
    IF pattern = << >> THEN text = << >>
    ELSE IF Head(pattern) = "%"
         THEN \/ like(text, Tail(pattern))
              \/ text # << >> /\ like(Tail(text), pattern)
         ELSE /\ text # << >>
              /\ Head(pattern) = "_" \/ Head(pattern) = Head(text)
              /\ like(Tail(text), Tail(pattern))

(***************************************************************************)
(* Search                                                                  *)
(***************************************************************************)
\* the text of a username or an email address, character by character
characters(string) ==
    CASE string = "alice"   -> <<"a", "l", "i", "c", "e">>
      [] string = "bob"     -> <<"b", "o", "b">>
      [] string = "charlie" -> <<"c", "h", "a", "r", "l", "i", "e">>
      [] string = "diana"   -> <<"d", "i", "a", "n", "a">>
      [] string = "eve"     -> <<"e", "v", "e">>
      [] string = "frank"   -> <<"f", "r", "a", "n", "k">>
      [] string = "alice@example.com" ->
             <<"a", "l", "i", "c", "e", "@", "e", "x", "a", "m", "p", "l", "e", ".", "c", "o", "m">>
      [] string = "bob@example.com" ->
             <<"b", "o", "b", "@", "e", "x", "a", "m", "p", "l", "e", ".", "c", "o", "m">>
      [] string = "charlie@example.com" ->
             <<"c", "h", "a", "r", "l", "i", "e", "@", "e", "x", "a", "m", "p", "l", "e", ".",
               "c", "o", "m">>
      [] string = "diana@example.com" ->
             <<"d", "i", "a", "n", "a", "@", "e", "x", "a", "m", "p", "l", "e", ".", "c", "o", "m">>
      [] string = "eve@example.com" ->
             <<"e", "v", "e", "@", "e", "x", "a", "m", "p", "l", "e", ".", "c", "o", "m">>
      [] string = "frank@example.com" ->
             <<"f", "r", "a", "n", "k", "@", "e", "x", "a", "m", "p", "l", "e", ".", "c", "o", "m">>

\* LIMIT 20
SearchLimit == 20

\* search_users: WHERE (username LIKE '%query%' OR email LIKE '%query%')
\* AND user_id != ? AND user_id NOT IN (the accepted contacts of ?) LIMIT 20.
\* There is no ORDER BY: the value is the set of the results the query may
\* give, each a set of users rows.
search_users(query, current_user_id) ==
    LET pattern == <<"%">> \o query \o <<"%">>
        found == {u \in users :
                     /\ \/ like(characters(u.username), pattern)
                        \/ like(characters(u.email), pattern)
                     /\ u.user_id # current_user_id
                     /\ u.user_id \notin
                            {c.contact_id : c \in {d \in contacts :
                                                      /\ d.user_id = current_user_id
                                                      /\ d.status = "accepted"}}}
    IN  IF Cardinality(found) <= SearchLimit
        THEN {found}
        ELSE {rows \in SUBSET found : Cardinality(rows) = SearchLimit}

\* str(uuid.uuid4()) for a new groups row
group_uuids == <<"g1", "g2", "g3", "g4">>
new_group_id(table) == group_uuids[Cardinality(table) + 1]

\* a faulty variant, for comparison: the creator is not added
all_members_as_given(creator_id, member_ids) ==
    {member_ids[i] : i \in DOMAIN member_ids}

\* set([creator_id] + member_ids)
all_members(creator_id, member_ids) ==
    {creator_id} \cup {member_ids[i] : i \in DOMAIN member_ids}

\* list(set): the elements once each, in an order the caller cannot rely on
lists_of(set) ==
    {l \in [1 .. Cardinality(set) -> set] : \A i, j \in DOMAIN l : i # j => l[i] # l[j]}

\* INSERT INTO groups (..., admin_ids, member_ids) with json.dumps([creator_id])
\* and json.dumps(all_members); commit; close
create_group(s, creator_id, member_ids) ==
    /\ pc[s] = "idle"
    /\ lock = NoSession
    /\ \E members \in lists_of(all_members(creator_id, member_ids)) :
           groups' = groups \cup
               {[group_id |-> new_group_id(groups), creator_id |-> creator_id,
                 admin_ids |-> json_dumps(<<creator_id>>),
                 member_ids |-> json_dumps(members)]}
    /\ call' = [call EXCEPT ![s] = [op |-> "create_group", creator_id |-> creator_id,
                                    member_ids |-> member_ids,
                                    group_id |-> new_group_id(groups), next |-> 1]]
    /\ pc' = [pc EXCEPT ![s] = "cg_notify"]
    /\ ret' = [ret EXCEPT ![s] = NoRet]
    /\ UNCHANGED <<users, messages, contacts, friend_requests, notifications,
                   lock, tx, clock, accepts, session_state>>

\* for member_id in member_ids: if member_id != creator_id:
\* create_notification(member_id, ..., "group_added"); after the loop,
\* return Group
create_group_notify(s) ==
    /\ pc[s] = "cg_notify"
    /\ LET c == call[s]
       IN  IF c.next > Len(c.member_ids)
           THEN /\ pc' = [pc EXCEPT ![s] = "done"]
                /\ ret' = [ret EXCEPT ![s] = Returned("Group", c.group_id)]
                /\ UNCHANGED <<notifications, call>>
           ELSE /\ IF c.member_ids[c.next] # c.creator_id
                   THEN /\ lock = NoSession
                        /\ notifications' = create_notification(notifications,
                                                c.member_ids[c.next], "group_added")
                   ELSE UNCHANGED notifications
                /\ call' = [call EXCEPT ![s].next = c.next + 1]
                /\ UNCHANGED <<pc, ret>>
    /\ UNCHANGED <<users, messages, contacts, friend_requests, groups,
                   lock, tx, clock, accepts, session_state>>

\* SELECT ... FROM groups WHERE json_extract(member_ids, '$') LIKE '%"id"%';
\* member_count is len(json.loads(member_ids))
get_user_groups(user_id) ==
    {[group_id |-> g.group_id, creator_id |-> g.creator_id,
      member_count |-> Len(json_loads(g.member_ids))] :
        g \in {h \in groups :
                 like(json_extract(h.member_ids),
                      <<"%", quote>> \o text_of(user_id) \o <<quote, "%">>)}}

(***************************************************************************)
(* ChatApplication: the pages of one browser session.  Every interaction   *)
(* reruns the script: run() refreshes the cached lists when they are due,  *)
(* render_main_app() marks the user online, and the page that is shown     *)
(* handles the widget that was used.                                       *)
(***************************************************************************)
\* LIMIT ? of get_user_notifications, by default
NotificationLimit == 20

\* get_user_notifications: WHERE user_id = ? ORDER BY created_at DESC LIMIT 20
get_user_notifications(user_id) ==
    LET mine == {n \in notifications : n.user_id = user_id}
    IN  {n \in mine :
            Cardinality({k \in mine : k.notification_id > n.notification_id})
                < NotificationLimit}

\* what the four queries of refresh_data return for user_id
fetched(user_id) ==
    [contacts |-> get_user_contacts(user_id),
     notifications |-> get_user_notifications(user_id),
     friend_requests |-> {r.id : r \in get_friend_requests(user_id)},
     groups |-> get_user_groups(user_id)]

\* refresh_data: if current_time - last_refresh > 10, reload the four lists
\* and set last_refresh; else nothing
refresh_data(state) ==
    IF state.refresh_due
    THEN [state EXCEPT !.contacts = fetched(state.user).contacts,
                       !.notifications = fetched(state.user).notifications,
                       !.friend_requests = fetched(state.user).friend_requests,
                       !.groups = fetched(state.user).groups,
                       !.refresh_due = FALSE]
    ELSE state

\* more than 10 seconds have passed since the session's last_refresh
elapse(s) ==
    /\ ~session_state[s].refresh_due
    /\ session_state' = [session_state EXCEPT ![s].refresh_due = TRUE]
    /\ UNCHANGED <<tables, lock, tx, pc, call, ret, clock, accepts>>

\* the login form is submitted: authenticate_user; on a user,
\* st.session_state.user = user and st.rerun()
render_login_form(s, username, password) ==
    /\ pc[s] = "idle"
    /\ session_state[s].user = None
    /\ lock = NoSession
    /\ call' = [call EXCEPT ![s] = [op |-> "render_login_form",
                                    username |-> username, password |-> password]]
    /\ pc' = [pc EXCEPT ![s] = "done"]
    /\ LET rows == authenticate_row(users, username, password)
       IN  IF rows = {}
           THEN /\ ret' = [ret EXCEPT ![s] = Returned("None", "")]
                /\ UNCHANGED <<users, session_state>>
           ELSE LET row == CHOOSE u \in rows : TRUE
                IN  /\ users' = set_online_status(users, row.user_id, "online")
                    /\ session_state' = [session_state EXCEPT ![s].user = row.user_id]
                    /\ ret' = [ret EXCEPT ![s] = Returned("User", row.user_id)]
    /\ UNCHANGED <<messages, contacts, friend_requests, notifications, groups,
                   lock, tx, clock, accepts>>

\* a rerun of a logged-in session in which no widget is used: refresh_data,
\* then render_main_app's update_user_status(user_id, ONLINE)
run(s) ==
    /\ pc[s] = "idle"
    /\ session_state[s].user # None
    /\ lock = NoSession
    /\ call' = [call EXCEPT ![s] = [op |-> "run"]]
    /\ pc' = [pc EXCEPT ![s] = "done"]
    /\ ret' = [ret EXCEPT ![s] = Returned("None", "")]
    /\ session_state' = [session_state EXCEPT ![s] = refresh_data(@)]
    /\ users' = set_online_status(users, session_state[s].user, "online")
    /\ UNCHANGED <<messages, contacts, friend_requests, notifications, groups,
                   lock, tx, clock, accepts>>

\* the Logout button: the rerun marks the user online, the handler calls
\* update_user_status(user_id, OFFLINE) and logout(), which deletes every key
\* of st.session_state; the next rerun sets the defaults again
logout(s) ==
    /\ pc[s] = "idle"
    /\ session_state[s].user # None
    /\ lock = NoSession
    /\ call' = [call EXCEPT ![s] = [op |-> "logout", user_id |-> session_state[s].user]]
    /\ pc' = [pc EXCEPT ![s] = "done"]
    /\ ret' = [ret EXCEPT ![s] = Returned("None", "")]
    /\ users' = set_online_status(users, session_state[s].user, "offline")
    /\ session_state' = [session_state EXCEPT ![s] = init_session_state]
    /\ UNCHANGED <<messages, contacts, friend_requests, notifications, groups,
                   lock, tx, clock, accepts>>

\* Accept or Decline of a request the friends page offers: the rerun
\* refreshes and marks the user online; if the request is still in the list,
\* respond_to_friend_request(request_id, response) runs, and st.rerun()
\* follows when it returns True.  An 'accepted' response whose receiver has a
\* users row raises OperationalError with nothing committed (main catches it).
render_friend_requests(s, request_id, response) ==
    /\ pc[s] = "idle"
    /\ session_state[s].user # None
    /\ request_id \in session_state[s].friend_requests
    /\ lock = NoSession
    /\ call' = [call EXCEPT ![s] = [op |-> "render_friend_requests",
                                    request_id |-> request_id, response |-> response]]
    /\ pc' = [pc EXCEPT ![s] = "done"]
    /\ users' = set_online_status(users, session_state[s].user, "online")
    /\ LET state == refresh_data(session_state[s])
           found == fetch_request(friend_requests, request_id)
       IN  /\ session_state' = [session_state EXCEPT ![s] = state]
           /\ IF request_id \notin state.friend_requests
              THEN /\ ret' = [ret EXCEPT ![s] = Returned("None", "")]
                   /\ UNCHANGED <<friend_requests, contacts, accepts>>
              ELSE IF found = {}
              THEN /\ ret' = [ret EXCEPT ![s] = Returned("False", "")]
                   /\ UNCHANGED <<friend_requests, contacts, accepts>>
              ELSE LET request == CHOOSE r \in found : TRUE
                       updated == set_request_status(friend_requests, request_id, response)
                   IN  /\ accepts' = IF response = "accepted"
                                         THEN accepts \cup {request_id} ELSE accepts
                       /\ IF response = "accepted"
                             /\ ~contacts_conflict(contacts, request.sender_id,
                                                   request.receiver_id)
                          THEN IF user_exists(request.receiver_id)
                               THEN /\ ret' = [ret EXCEPT ![s] = Raised("OperationalError")]
                                    /\ UNCHANGED <<friend_requests, contacts>>
                               ELSE /\ friend_requests' = updated
                                    /\ contacts' = contacts \cup
                                           contact_rows(contacts, request.sender_id,
                                                        request.receiver_id)
                                    /\ ret' = [ret EXCEPT ![s] = Returned("True", "")]
                          ELSE /\ friend_requests' = updated
                               /\ ret' = [ret EXCEPT ![s] = Returned("True", "")]
                               /\ UNCHANGED contacts
    /\ UNCHANGED <<messages, notifications, groups, lock, tx, clock>>

\* Add Friend on a search result: the rerun refreshes and marks the user
\* online, the handler calls send_friend_request(user_id, result['user_id']),
\* whose INSERT is this step's and whose notification is the next one's.
\* search_users never lists the user itself.
render_friend_search(s, receiver_id) ==
    /\ pc[s] = "idle"
    /\ session_state[s].user \notin {None, receiver_id}
    /\ lock = NoSession
    /\ call' = [call EXCEPT ![s] = [op |-> "send_friend_request",
                                    sender_id |-> session_state[s].user,
                                    receiver_id |-> receiver_id]]
    /\ users' = set_online_status(users, session_state[s].user, "online")
    /\ session_state' = [session_state EXCEPT ![s] = refresh_data(@)]
    /\ IF friend_request_exists(session_state[s].user, receiver_id)
       THEN /\ pc' = [pc EXCEPT ![s] = "done"]
            /\ ret' = [ret EXCEPT ![s] = Returned("False", "")]
            /\ UNCHANGED friend_requests
       ELSE /\ friend_requests' = friend_requests \cup
                   {[id |-> Cardinality(friend_requests) + 1,
                     sender_id |-> session_state[s].user,
                     receiver_id |-> receiver_id, status |-> "pending"]}
            /\ pc' = [pc EXCEPT ![s] = "sfr_notify"]
            /\ ret' = [ret EXCEPT ![s] = NoRet]
    /\ UNCHANGED <<messages, contacts, notifications, groups, lock, tx, clock, accepts>>

\* the entries the chat list, the friends list and the groups list show, each
\* with a button that sets active_chat to its id
chat_buttons(state) ==
    {state.contacts[i] : i \in DOMAIN state.contacts}
        \cup {g.group_id : g \in state.groups}

\* a chat or a group is opened from a list: st.session_state.active_chat =
\* contact['user_id'], or group['group_id'], and st.rerun()
set_active_chat(s, id) ==
    /\ pc[s] = "idle"
    /\ session_state[s].user # None
    /\ id \in chat_buttons(session_state[s])
    /\ lock = NoSession
    /\ call' = [call EXCEPT ![s] = [op |-> "set_active_chat", id |-> id]]
    /\ pc' = [pc EXCEPT ![s] = "done"]
    /\ ret' = [ret EXCEPT ![s] = Returned("None", "")]
    /\ users' = set_online_status(users, session_state[s].user, "online")
    /\ LET state == refresh_data(session_state[s])
       IN  session_state' = [session_state EXCEPT ![s] =
               IF id \in chat_buttons(state) THEN [state EXCEPT !.active_chat = id] ELSE state]
    /\ UNCHANGED <<messages, contacts, friend_requests, notifications, groups,
                   lock, tx, clock, accepts>>

\* a faulty variant, for comparison: the page does not look the contact up
contact_found_unchecked(state) == state.active_chat # None

\* render_chat_page gets as far as render_message_input_area: active_chat is
\* set and is the user_id of a cached contact
contact_found(state) ==
    /\ state.active_chat # None
    /\ \E i \in DOMAIN state.contacts : state.contacts[i] = state.active_chat

\* a rerun on the chats page with a message submitted where the page has an
\* input: ChatApplication.send_message calls db.send_message(user_id,
\* active_chat, content), which stores the row and notifies the recipient
render_chat_page(s) ==
    /\ pc[s] = "idle"
    /\ session_state[s].user # None
    /\ lock = NoSession
    /\ pc' = [pc EXCEPT ![s] = "done"]
    /\ users' = set_online_status(users, session_state[s].user, "online")
    /\ LET state == refresh_data(session_state[s])
           c == [op |-> "render_chat_page", sender_id |-> state.user,
                 recipient_id |-> state.active_chat, group_id |-> None,
                 timestamp |-> clock + 1]
       IN  /\ session_state' = [session_state EXCEPT ![s] = state]
           /\ call' = [call EXCEPT ![s] = c]
           /\ IF contact_found(state)
              THEN /\ clock' = clock + 1
                   /\ messages' = messages \cup {message_row(c)}
                   /\ notifications' =
                          IF truth(c.recipient_id) /\ c.recipient_id # c.sender_id
                          THEN create_notification(notifications, c.recipient_id, "message")
                          ELSE notifications
                   /\ ret' = [ret EXCEPT ![s] = Returned("Message", "")]
              ELSE /\ ret' = [ret EXCEPT ![s] = Returned("None", "")]
                   /\ UNCHANGED <<messages, notifications, clock>>
    /\ UNCHANGED <<contacts, friend_requests, groups, lock, tx, accepts>>

(***************************************************************************)
(* Claims about friend requests and contacts                               *)
(***************************************************************************)
\* session s's call of method op is over: it has returned or raised
Over(s, op) == pc[s] \in {"done", "raised"} /\ call[s].op = op

\* the contacts rows between two users
rows_between(a, b) ==
    {c \in contacts : \/ c.user_id = a /\ c.contact_id = b
                      \/ c.user_id = b /\ c.contact_id = a}

\* exactly the rows (a, b) and (b, a), both 'accepted'
both_directions(a, b) ==
    /\ Cardinality(rows_between(a, b)) = 2
    /\ \A c \in rows_between(a, b) : c.status = "accepted"
    /\ \E c \in rows_between(a, b) : c.user_id = a
    /\ \E c \in rows_between(a, b) : c.user_id = b

in_seq(x, seq) == \E i \in 1 .. Len(seq) : seq[i] = x

\* C1: respond_to_friend_request(id, 'accepted') on a pending request between
\* two distinct existing users (no other connection holding the write lock)
\* returns True, and then contacts holds exactly
\* the rows (sender, receiver) and (receiver, sender), both 'accepted', and
\* get_user_contacts of each of the two lists the other.
C1_AcceptMakesBothContacts ==
    \A s \in Sessions :
        (/\ Over(s, "respond_to_friend_request")
         /\ call[s].response = "accepted"
         /\ call[s].was = "pending"
         /\ call[s].sender_id # call[s].receiver_id
         /\ user_exists(call[s].sender_id)
         /\ user_exists(call[s].receiver_id)
         /\ lock \in {NoSession, s})
        => /\ ret[s] = Returned("True", "")
           /\ both_directions(call[s].sender_id, call[s].receiver_id)
           /\ in_seq(call[s].receiver_id, get_user_contacts(call[s].sender_id))
           /\ in_seq(call[s].sender_id, get_user_contacts(call[s].receiver_id))

\* C2: a respond_to_friend_request(id, 'accepted') called after an earlier
\* 'accepted' response to the same request has finished, run while no other connection
\* holds the write lock, raises nothing, returns True and leaves contacts as it
\* was, with exactly the two rows of the pair; and no (user_id, contact_id)
\* pair is ever stored twice.
C2_SecondAcceptIdempotent ==
    /\ [][\A s \in Sessions :
            (/\ call[s].op = "respond_to_friend_request"
             /\ pc[s] \in {"respond_update", "respond_notify"}
             /\ pc'[s] \in {"done", "raised"}
             /\ call[s].response = "accepted"
             /\ call[s].sender_id # call[s].receiver_id
             /\ call[s].again
             /\ lock \in {NoSession, s})
            => /\ ret'[s] = Returned("True", "")
               /\ both_directions(call[s].sender_id, call[s].receiver_id)'
               /\ contacts' = contacts]_vars
    /\ [](\A c, d \in contacts :
            (c.user_id = d.user_id /\ c.contact_id = d.contact_id) => c = d)

\* C3: the status of a friend request (between two existing users) changes
\* only from 'pending', and only to 'accepted' or 'rejected'.
C3_AnsweredIsTerminal ==
    [][\A r \in friend_requests : \A q \in friend_requests' :
          (/\ q.id = r.id /\ q.status # r.status
           /\ user_exists(r.sender_id) /\ user_exists(r.receiver_id))
          => (r.status = "pending" /\ q.status \in {"accepted", "rejected"})]_vars

\* C4: the accepted contacts rows come in pairs: (a, b) is stored as accepted
\* exactly when (b, a) is.
C4_ContactsSymmetric ==
    \A c \in contacts :
        c.status = "accepted"
        => \E d \in contacts : /\ d.user_id = c.contact_id
                               /\ d.contact_id = c.user_id
                               /\ d.status = "accepted"

\* an acceptance has committed its two rows while the other session is inside
\* a respond_to_friend_request of its own
C4_Witness ==
    /\ contacts # {}
    /\ \E s, t \in Sessions :
          /\ s # t
          /\ Over(s, "respond_to_friend_request")
          /\ call[s].response = "accepted"
          /\ ret[s] = Returned("True", "")
          /\ call[t].op = "respond_to_friend_request"
          /\ pc[t] \in {"respond_update", "done", "raised"}

\* session s executes the UPDATE of a respond_to_friend_request(id, response)
\* in this step
Answers_with(s, response) ==
    /\ pc[s] = "respond_update"
    /\ pc'[s] # "respond_update"
    /\ pc'[s] # "raised"
    /\ call[s].response = response

\* C13: respond_to_friend_request(id, 'rejected') on an existing request
\* returns True and changes only that request's status: the request is stored
\* as rejected, every other friend request is as it was, and contacts,
\* notifications, users and messages are unchanged.
C13_RejectChangesOnlyStatus ==
    [][\A s \in Sessions :
          Answers_with(s, "rejected") =>
              /\ pc'[s] = "done"
              /\ ret'[s] = Returned("True", "")
              /\ \A r \in friend_requests :
                     IF r.id = call[s].request_id
                     THEN [r EXCEPT !.status = "rejected"] \in friend_requests'
                     ELSE r \in friend_requests'
              /\ Cardinality(friend_requests') = Cardinality(friend_requests)
              /\ contacts' = contacts
              /\ notifications' = notifications
              /\ users' = users
              /\ messages' = messages]_vars

\* a request has been rejected while another request is stored as pending
C13_Witness ==
    \E s \in Sessions :
        /\ Over(s, "respond_to_friend_request")
        /\ call[s].response = "rejected"
        /\ call[s].was = "pending"
        /\ ret[s] = Returned("True", "")
        /\ \E r, q \in friend_requests :
               /\ r.id = call[s].request_id
               /\ r.status = "rejected"
               /\ q.id # r.id
               /\ q.status = "pending"

\* C14: no DatabaseManager operation raises to its caller: every call ends
\* by returning.
C14_NothingRaises ==
    \A s \in Sessions : pc[s] # "raised" /\ ret[s].kind # "raise"

\* C15: a connection holds no uncommitted write while a helper call of its
\* method (get_user_by_id, create_notification) runs on a second connection,
\* and none when its method has returned: every call has committed and closed
\* its connection by then.
C15_CommitBeforeHelpersAndReturn ==
    \A s \in Sessions :
        pc[s] \in {"sfr_notify", "sm_notify", "respond_notify", "done"} => lock # s

\* the ids get_friend_requests is called with
ReceiverIds == {"u1", "u2", UnknownUserId}

\* C24: get_friend_requests(u) returns exactly the requests whose receiver is u,
\* whose status is 'pending' and whose sender exists; and a request that has
\* been answered 'accepted' or 'rejected' is never returned again.
C24_PendingOnlyAndNeverAgain ==
    /\ [](\A u \in ReceiverIds : \A r \in friend_requests :
              r \in get_friend_requests(u)
                  <=> /\ r.receiver_id = u
                      /\ r.status = "pending"
                      /\ \E v \in users : v.user_id = r.sender_id)
    /\ [][\A r \in friend_requests :
              r.status \in {"accepted", "rejected"} =>
                  \A u \in ReceiverIds :
                      \A q \in (get_friend_requests(u))' : q.id # r.id]_vars

\* C22: respond_to_friend_request with a request id that no friend_requests row
\* has returns False and changes nothing: every row of every table is as it
\* was, and the call leaves no transaction behind.
C22_UnknownRequestChangesNothing ==
    [][\A s \in Sessions :
          (/\ pc[s] = "idle"
           /\ pc'[s] # "idle"
           /\ call'[s].op = "respond_to_friend_request"
           /\ \A r \in friend_requests : r.id # call'[s].request_id)
          => /\ pc'[s] = "done"
             /\ ret'[s] = Returned("False", "")
             /\ tables' = tables
             /\ lock' = lock
             /\ tx' = tx]_vars

\* a response to the id of no row has returned, with another request stored
\* and still as it was sent
C22_Witness ==
    \E s \in Sessions :
        /\ Over(s, "respond_to_friend_request")
        /\ ret[s] = Returned("False", "")
        /\ \A r \in friend_requests : r.id # call[s].request_id
        /\ \E r \in friend_requests : r.status = "pending"

(***************************************************************************)
(* Claims about users                                                      *)
(***************************************************************************)
\* session s has just run the statements of method op to its return
Ran(s, op) == pc[s] = "idle" /\ pc'[s] = "done" /\ call'[s].op = op

is_demo_user(u) == \E i \in DOMAIN demo_users : demo_users[i].username = u.username

username_stored(username) == \E u \in users : u.username = username
email_stored(email) == \E u \in users : u.email = email

\* C5: create_user with a username and an email not yet stored returns a user
\* whose row then matches authenticate_user's query for the same username and
\* password; rows keep their id, username and password hash; and
\* authenticate_user returns the user of the row its query matches.  So a later
\* authenticate_user with the same username and password returns that user_id.
C5_CreateThenAuthenticate ==
    /\ [][\A s \in Sessions :
            (/\ Ran(s, "create_user")
             /\ ~username_stored(call'[s].username)
             /\ ~email_stored(call'[s].email))
            => /\ ret'[s].kind = "return" /\ ret'[s].val = "User"
               /\ \E u \in users' \ users :
                     /\ u.user_id = ret'[s].id
                     /\ u.username = call'[s].username
                     /\ u.email = call'[s].email
                     /\ authenticate_row(users', call'[s].username, call'[s].password) = {u}]_vars
    /\ [][\A u \in users : \E v \in users' :
            /\ v.user_id = u.user_id
            /\ v.username = u.username
            /\ v.password_hash = u.password_hash]_vars
    /\ [][\A s \in Sessions :
            Ran(s, "authenticate_user")
            => \A u \in authenticate_row(users, call'[s].username, call'[s].password) :
                  ret'[s] = Returned("User", u.user_id)]_vars

\* a user made by create_user has logged in
C5_Witness ==
    \E s \in Sessions :
        /\ pc[s] = "done"
        /\ call[s].op = "authenticate_user"
        /\ ret[s].val = "User"
        /\ \E u \in users : u.user_id = ret[s].id /\ ~is_demo_user(u)

\* C6: create_user with a stored username or a stored email returns None and
\* changes no row of any table.
C6_DuplicateLeavesTablesUnchanged ==
    [][\A s \in Sessions :
          (/\ Ran(s, "create_user")
           /\ \/ username_stored(call'[s].username)
              \/ email_stored(call'[s].email))
          => /\ ret'[s] = Returned("None", "")
             /\ tables' = tables]_vars

\* create_user has refused the email of a user made by create_user
C6_Witness ==
    \E s \in Sessions :
        /\ pc[s] = "done"
        /\ call[s].op = "create_user"
        /\ ret[s].val = "None"
        /\ \E u \in users : ~is_demo_user(u) /\ u.email = call[s].email
                            /\ u.username # call[s].username

\* C7: no two users rows share a username, an email or a user_id, and of two
\* create_user calls with the same username at most one returns a user.
C7_UniqueUsers ==
    /\ \A u, v \in users :
          (u.username = v.username \/ u.email = v.email \/ u.user_id = v.user_id)
          => u = v
    /\ \A s, t \in Sessions :
          (/\ s # t
           /\ pc[s] = "done" /\ call[s].op = "create_user"
           /\ pc[t] = "done" /\ call[t].op = "create_user"
           /\ call[s].username = call[t].username)
          => ~(ret[s].val = "User" /\ ret[t].val = "User")

\* a session's start-up has lost the race for the demo rows, and create_user
\* has added a user to them
C7_Witness ==
    /\ \E s \in Sessions :
          /\ pc[s] = "raised"
          /\ call[s].op = "init_database"
          /\ ret[s] = Raised("IntegrityError")
    /\ \E u, v \in users : ~is_demo_user(u) /\ is_demo_user(v)

\* session s takes a step of DatabaseManager.__init__
Initialises(s) ==
    \/ /\ pc[s] \in {"new", "idle"}
       /\ pc'[s] # pc[s]
       /\ call'[s].op = "init_database"
    \/ /\ pc[s] = "demo_insert"
       /\ pc'[s] # pc[s]

\* C25: init_database is idempotent.  Run on a database that holds a user it
\* adds, changes and removes no row of any table; the only rows it ever
\* writes are the four demo users, into a users table that is empty.
C25_InitDatabaseIdempotent ==
    [][\A s \in Sessions :
          Initialises(s) =>
              /\ users # {} => tables' = tables
              /\ tables' # tables =>
                     /\ users = {}
                     /\ Cardinality(users') = Len(demo_users)
                     /\ \A u \in users' : is_demo_user(u)
                     /\ <<messages, contacts, friend_requests, notifications, groups>>' =
                            <<messages, contacts, friend_requests, notifications, groups>>]_vars

\* init_database has returned on a database that holds users, messages and
\* notifications
C25_Witness ==
    \E s \in Sessions :
        /\ Over(s, "init_database")
        /\ ret[s] = Returned("None", "")
        /\ Cardinality(users) = Len(demo_users)
        /\ messages # {}
        /\ notifications # {}

\* what is typed into the search box: part of a name, part of every address,
\* nothing, and the two characters LIKE reads as wildcards
Queries == {<<"l", "i">>, <<"@", "e", "x">>, << >>, <<"_">>, <<"%">>}

\* text has query in it, as a run of consecutive characters
contains(text, query) ==
    \E i \in 1 .. Len(text) + 1 :
        /\ i + Len(query) - 1 <= Len(text)
        /\ SubSeq(text, i, i + Len(query) - 1) = query

\* C30: search_users(query, u) never returns u, nor a user u has as an accepted
\* contact; it returns at most 20 users, and the username or the email of
\* each contains the query.
C30_SearchResults ==
    \A query \in Queries : \A u \in {"u1", "u5"} :
        \A rows \in search_users(query, u) :
            /\ Cardinality(rows) <= SearchLimit
            /\ \A r \in rows :
                   /\ r.user_id # u
                   /\ ~\E c \in contacts : /\ c.user_id = u
                                            /\ c.contact_id = r.user_id
                                            /\ c.status = "accepted"
                   /\ \/ contains(characters(r.username), query)
                      \/ contains(characters(r.email), query)

(***************************************************************************)
(* The caller                                                              *)
(***************************************************************************)
\* a write that waits for another connection's lock until the busy timeout:
\* sqlite3.OperationalError "database is locked"
busy_call(s, c) ==
    /\ pc[s] = "idle"
    /\ lock \notin {NoSession, s}
    /\ call' = [call EXCEPT ![s] = c]
    /\ pc' = [pc EXCEPT ![s] = "raised"]
    /\ ret' = [ret EXCEPT ![s] = Raised("OperationalError")]
    /\ UNCHANGED <<tables, lock, tx, clock, accepts, session_state>>

\* a write inside a method that waits for another connection's lock until the
\* busy timeout: OperationalError leaves the method, its connection left open
busy_step(s) ==
    /\ pc[s] \in {"demo_insert", "sfr_notify", "respond_update", "sm_insert", "sm_notify",
                 "cg_notify"}
    /\ lock \notin {NoSession, s}
    /\ pc' = [pc EXCEPT ![s] = "raised"]
    /\ ret' = [ret EXCEPT ![s] = Raised("OperationalError")]
    /\ UNCHANGED <<tables, lock, tx, call, clock, accepts, session_state>>

\* The call is over.  A connection the method left open is closed when the
\* caller drops the exception: its pending transaction is rolled back.
Return(s) ==
    /\ pc[s] \in {"done", "raised"}
    /\ pc' = [pc EXCEPT ![s] =
                IF call[s].op = "init_database" /\ pc[s] = "raised"
                THEN "new" ELSE "idle"]
    /\ call' = [call EXCEPT ![s] = NoCall]
    /\ ret' = [ret EXCEPT ![s] = NoRet]
    /\ IF lock = s THEN lock' = NoSession /\ tx' = NoTx
                   ELSE UNCHANGED <<lock, tx>>
    /\ UNCHANGED <<tables, clock, accepts, session_state>>

UserWrites ==
    {[op |-> "create_user", username |-> "eve", email |-> "eve@example.com",
      password |-> "hunter2"]}

NextUsers ==
    \E s \in Sessions :
        \/ init_database(s)
        \/ create_demo_data(s)
        \/ \E u \in Usernames, e \in Emails, p \in Passwords : create_user(s, u, e, p)
        \/ \E u \in Usernames, p \in Passwords : authenticate_user(s, u, p)
        \/ \E i \in {"u1", "u5"}, st \in Statuses : update_user_status(s, i, st)
        \/ \E c \in UserWrites : busy_call(s, c)
        \/ Return(s)

SpecUsers == Init /\ [][NextUsers]_vars

\* logins with a right and a wrong password and of an unknown username,
\* between status updates of two users, as time passes
LoginNames == {"alice", "eve"}
StatusUserIds == {"u1", "u2"}

NextLogin ==
    \/ \E s \in Sessions :
           \/ init_database(s)
           \/ create_demo_data(s)
           \/ \E u \in LoginNames, p \in Passwords : authenticate_user(s, u, p)
           \/ \E i \in StatusUserIds, st \in Statuses : update_user_status(s, i, st)
           \/ Return(s)
    \/ tick

SpecLogin == Init /\ [][NextLogin]_vars

\* C23: authenticate_user with an unknown username or a wrong password returns
\* None and leaves table users as it was; with the stored password it returns
\* the user and sets online_status to 'online' and last_seen to the current
\* time in that user's row, every other column and every other row staying
\* as it was.
C23_LoginTouchesOneRow ==
    [][\A s \in Sessions :
          Ran(s, "authenticate_user") =>
              LET c == call'[s]
                  named == {u \in users : u.username = c.username}
                  right == {u \in named : u.password_hash = sha256(c.password)}
              IN  /\ <<messages, contacts, friend_requests, notifications, groups>>' =
                         <<messages, contacts, friend_requests, notifications, groups>>
                  /\ right = {} => /\ ret'[s] = Returned("None", "")
                                   /\ users' = users
                  /\ \A u \in right :
                         /\ ret'[s] = Returned("User", u.user_id)
                         /\ users' = (users \ {u}) \cup
                                {[user_id |-> u.user_id, username |-> u.username,
                                  email |-> u.email, password_hash |-> u.password_hash,
                                  online_status |-> "online", last_seen |-> clock]}]_vars

\* a login has succeeded for a user last seen earlier, while another user is
\* offline and was last seen at another time
C23_Witness ==
    \E s \in Sessions : \E u, v \in users :
        /\ Over(s, "authenticate_user")
        /\ ret[s] = Returned("User", u.user_id)
        /\ u.online_status = "online"
        /\ u.last_seen = clock
        /\ clock > 0
        /\ v.online_status = "offline"
        /\ v.last_seen # u.last_seen

FriendWrites ==
    {[op |-> "send_friend_request", sender_id |-> "u1", receiver_id |-> "u2"]}

NextFriends ==
    \E s \in Sessions :
        \/ init_database(s)
        \/ create_demo_data(s)
        \/ \E p \in FriendPairs : send_friend_request(s, p[1], p[2])
        \/ send_friend_request_notify(s)
        \/ \E i \in RequestIds, r \in Responses : respond_to_friend_request(s, i, r)
        \/ respond_update(s)
        \/ respond_notify(s)
        \/ busy_step(s)
        \/ \E c \in FriendWrites : busy_call(s, c)
        \/ Return(s)

SpecFriends == Init /\ [][NextFriends]_vars

\* alice and bob ask each other, and alice asks the unknown id, whose request
\* can be accepted; the answers are the two the interface gives.  Both
\* sessions send requests, one of them answers.
RequestPairs == {<<"u1", "u2">>, <<"u2", "u1">>, <<"u1", UnknownUserId>>}
Answers == {"accepted", "rejected"}

NextRequests ==
    \/ \E s \in Sessions :
           \/ init_database(s)
           \/ create_demo_data(s)
           \/ \E p \in RequestPairs : send_friend_request(s, p[1], p[2])
           \/ send_friend_request_notify(s)
           \/ busy_step(s)
           \/ Return(s)
    \/ \E i \in 1 .. Cardinality(RequestPairs), r \in Answers :
           respond_to_friend_request("s1", i, r)
    \/ respond_update("s1")
    \/ respond_notify("s1")

SpecRequests == Init /\ [][NextRequests]_vars

\* the friend_requests rows of the ordered pair (sender_id, receiver_id)
requests_of(table, sender_id, receiver_id) ==
    {r \in table : r.sender_id = sender_id /\ r.receiver_id = receiver_id}

\* session s executes the INSERT of send_friend_request in this step
Sends(s) ==
    /\ pc[s] = "idle"
    /\ pc'[s] \in {"done", "sfr_notify"}
    /\ call'[s].op = "send_friend_request"

\* C12: send_friend_request(s, r) returns False when a row of the ordered pair
\* (s, r) is stored, whatever its status, and then adds no friend_requests row
\* and no notification; when no row of (s, r) is stored it adds the pending
\* row and does not return False, a row of (r, s) notwithstanding.
C12_DuplicateRequestRefused ==
    [][\A s \in Sessions :
          Sends(s) =>
              LET a == call'[s].sender_id
                  b == call'[s].receiver_id
              IN  IF requests_of(friend_requests, a, b) # {}
                  THEN /\ pc'[s] = "done"
                       /\ ret'[s] = Returned("False", "")
                       /\ friend_requests' = friend_requests
                       /\ notifications' = notifications
                  ELSE /\ pc'[s] = "sfr_notify"
                       /\ \E r \in friend_requests' \ friend_requests :
                              /\ requests_of(friend_requests', a, b) = {r}
                              /\ r.status = "pending"
                              /\ friend_requests' = friend_requests \cup {r}]_vars

\* alice and bob have asked each other, and alice's second request to the
\* unknown id has been refused after her first was accepted
C12_Witness ==
    /\ requests_of(friend_requests, "u1", "u2") # {}
    /\ requests_of(friend_requests, "u2", "u1") # {}
    /\ \E s \in Sessions :
          /\ pc[s] = "done"
          /\ call[s].op = "send_friend_request"
          /\ ret[s] = Returned("False", "")
          /\ \E r \in requests_of(friend_requests, call[s].sender_id, call[s].receiver_id) :
                 r.status = "accepted"

\* bob and alice both ask the unknown id, the one receiver whose acceptance
\* commits, so that one user_id comes to have two contacts
ContactPairs == {<<"u1", UnknownUserId>>, <<"u2", UnknownUserId>>}
ContactOwners == {"u1", "u2", UnknownUserId}

NextContacts ==
    \/ \E s \in Sessions :
           \/ init_database(s)
           \/ create_demo_data(s)
           \/ \E p \in ContactPairs : send_friend_request(s, p[1], p[2])
           \/ send_friend_request_notify(s)
           \/ busy_step(s)
           \/ Return(s)
    \/ \E i \in 1 .. Cardinality(ContactPairs), r \in Answers :
           respond_to_friend_request("s1", i, r)
    \/ respond_update("s1")
    \/ respond_notify("s1")

SpecContacts == Init /\ [][NextContacts]_vars

\* the contacts row of user_id for contact_id
contact_row(user_id, contact_id) ==
    CHOOSE c \in contacts : c.user_id = user_id /\ c.contact_id = contact_id

\* C18: get_user_contacts(u) lists, once each, exactly the contact_id of the
\* contacts rows with user_id = u, is_blocked false and status 'accepted'
\* whose contact_id is a stored user, favorites before the others and, among
\* equally favorite rows, in ascending order of username.
C18_ContactsFilteredAndOrdered ==
    \A u \in ContactOwners :
        LET listed == get_user_contacts(u)
            wanted == {c \in contacts : /\ c.user_id = u
                                        /\ c.is_blocked = FALSE
                                        /\ c.status = "accepted"
                                        /\ \E v \in users : v.user_id = c.contact_id}
        IN  /\ {listed[i] : i \in DOMAIN listed} = {c.contact_id : c \in wanted}
            /\ Len(listed) = Cardinality(wanted)
            /\ \A i \in DOMAIN listed, j \in DOMAIN listed :
                   i < j =>
                       LET c == contact_row(u, listed[i])
                           d == contact_row(u, listed[j])
                       IN  \/ c.is_favorite /\ ~d.is_favorite
                           \/ /\ c.is_favorite = d.is_favorite
                              /\ username_rank(username_of(listed[i]))
                                     < username_rank(username_of(listed[j]))

\* the unknown id has bob's row, stored first, and alice's row, and alice is
\* listed before bob; alice's own row names no stored user and is left out
C18_Witness ==
    /\ get_user_contacts(UnknownUserId) = <<"u1", "u2">>
    /\ contact_row(UnknownUserId, "u2").id < contact_row(UnknownUserId, "u1").id
    /\ get_user_contacts("u1") = << >>
    /\ \E c \in contacts : c.user_id = "u1"

(***************************************************************************)
(* Claims about messages                                                   *)
(***************************************************************************)
\* the users whose conversations are read, and the limits they are read with
ChatUsers == {"u1", "u2", "u3"}
Limits == 0 .. MaxMessages

last_rows(seq, limit) == SubSeq(seq, Len(seq) - limit + 1, Len(seq))

\* C8: get_messages(A, B, limit), when more than limit messages exist between
\* A and B, returns the limit most recent of them, in ascending order of
\* timestamp.
C8_ReturnsMostRecent ==
    \A a \in ChatUsers, b \in ChatUsers, limit \in Limits :
        Cardinality(conversation(a, b)) > limit
            => get_messages(a, b, limit) = last_rows(by_timestamp(conversation(a, b)), limit)

\* C9: get_messages(A, B, limit) returns only messages whose (sender_id,
\* recipient_id) is (A, B) or (B, A), never more than limit of them, in order
\* of non-decreasing timestamp, and get_messages(B, A, limit) returns the same
\* sequence.
C9_FilterLimitOrderSymmetry ==
    \A a \in ChatUsers, b \in ChatUsers, limit \in Limits :
        LET rows == get_messages(a, b, limit)
        IN  /\ \A i \in DOMAIN rows :
                   /\ rows[i] \in messages
                   /\ <<rows[i].sender_id, rows[i].recipient_id>> \in {<<a, b>>, <<b, a>>}
            /\ Len(rows) <= limit
            /\ \A i \in DOMAIN rows, j \in DOMAIN rows :
                   i < j => rows[i].timestamp <= rows[j].timestamp
            /\ get_messages(b, a, limit) = rows

\* alice and bob have written to each other, a message outside their
\* conversation is stored, and the limit cuts their conversation short
C9_Witness ==
    /\ \E m \in messages : m.sender_id = "u1" /\ m.recipient_id = "u2"
    /\ \E m \in messages : m.sender_id = "u2" /\ m.recipient_id = "u1"
    /\ \E m \in messages : m \notin conversation("u1", "u2")
    /\ Len(get_messages("u1", "u2", 1)) = 1
    /\ Cardinality(conversation("u2", "u1")) > 1

\* C10: a direct message from A to B is contained in get_messages(A, B) and in
\* get_messages(B, A), called with the default limit, in every state from the
\* one that stores it.
C10_StaysVisible ==
    \A m \in messages :
        m.recipient_id # None
            => /\ in_seq(m, get_messages(m.sender_id, m.recipient_id, DefaultLimit))
               /\ in_seq(m, get_messages(m.recipient_id, m.sender_id, DefaultLimit))

\* C11: every stored message row has exactly one destination: exactly one of
\* recipient_id and group_id is non-null.
C11_OneDestination ==
    \A m \in messages : (m.recipient_id = None) # (m.group_id = None)

\* C19: every stored message has status 'sent'.
C19_AlwaysSent ==
    \A m \in messages : m.status = "sent"

\* two sessions have sent direct and group messages, as many as the bound allows
C19_Witness ==
    /\ Cardinality(messages) = MaxMessages
    /\ \E m \in messages : m.recipient_id # None
    /\ \E m \in messages : m.group_id # None
    /\ \E s \in Sessions : pc[s] = "done" /\ call[s].op = "send_message"

\* (sender_id, recipient_id, group_id) of the messages sent: alice and bob to
\* each other, alice to charlie, and alice to a group
GroupId == "g1"
MessageInputs == {<<"u1", "u2", None>>, <<"u2", "u1", None>>, <<"u1", "u3", None>>,
                  <<"u1", None, GroupId>>}

NextMessages ==
    \E s \in Sessions :
        \/ init_database(s)
        \/ create_demo_data(s)
        \/ \E m \in MessageInputs : clock < MaxMessages /\ send_message(s, m[1], m[2], m[3])
        \/ send_message_insert(s)
        \/ send_message_notify(s)
        \/ busy_step(s)
        \/ Return(s)

SpecMessages == Init /\ [][NextMessages]_vars

\* every combination of the arguments recipient_id and group_id that
\* send_message accepts: the inputs above, and alice with both given and with
\* neither
SendInputs == MessageInputs \cup {<<"u1", "u2", GroupId>>, <<"u1", None, None>>}

NextSend ==
    \E s \in Sessions :
        \/ init_database(s)
        \/ create_demo_data(s)
        \/ \E m \in SendInputs : clock < MaxMessages /\ send_message(s, m[1], m[2], m[3])
        \/ send_message_insert(s)
        \/ send_message_notify(s)
        \/ busy_step(s)
        \/ Return(s)

SpecSend == Init /\ [][NextSend]_vars

\* (sender_id, recipient_id, group_id) of the messages sent: to another user,
\* to the sender, to the empty string, and to a group without a recipient
NotifyInputs == {<<"u1", "u2", None>>, <<"u1", "u1", None>>, <<"u1", "", None>>,
                 <<"u1", None, GroupId>>}

NextNotify ==
    \E s \in Sessions :
        \/ init_database(s)
        \/ create_demo_data(s)
        \/ \E m \in NotifyInputs : clock < MaxMessages /\ send_message(s, m[1], m[2], m[3])
        \/ send_message_insert(s)
        \/ send_message_notify(s)
        \/ busy_step(s)
        \/ Return(s)

SpecNotify == Init /\ [][NextNotify]_vars

\* session s executes the INSERT INTO messages of its send_message
Inserts(s) == pc[s] = "sm_insert" /\ pc'[s] \in {"sm_notify", "done"}

\* session s executes the create_notification of its send_message
Notifies(s) == pc[s] = "sm_notify" /\ pc'[s] = "done"

\* the statements of send_message, with notified(c) the condition under which
\* the call c goes on to notify: one new message row and nothing else; then
\* one new notification of type 'message' to the recipient and nothing else,
\* if and only if notified(c); and no other row changed
send_message_writes(notified(_)) ==
    \A s \in Sessions :
        /\ Inserts(s) =>
               /\ \E row \in messages' :
                      /\ row \notin messages
                      /\ row.sender_id = call[s].sender_id
                      /\ row.recipient_id = call[s].recipient_id
                      /\ messages' = messages \cup {row}
               /\ <<users, contacts, friend_requests, notifications, groups>>' =
                      <<users, contacts, friend_requests, notifications, groups>>
               /\ (pc'[s] = "sm_notify") <=> notified(call[s])
        /\ Notifies(s) =>
               /\ \E n \in notifications' :
                      /\ n \notin notifications
                      /\ n.type = "message"
                      /\ n.user_id = call[s].recipient_id
                      /\ notifications' = notifications \cup {n}
               /\ <<users, messages, contacts, friend_requests, groups>>' =
                      <<users, messages, contacts, friend_requests, groups>>

recipient_not_null(c) == c.recipient_id # None /\ c.recipient_id # c.sender_id

recipient_not_empty(c) ==
    c.recipient_id # None /\ c.recipient_id # "" /\ c.recipient_id # c.sender_id

\* C26 as stated: send_message adds exactly one message row, and exactly one
\* notification, of type 'message' and addressed to the recipient, if and only
\* if recipient_id is non-null and differs from sender_id; it changes no other
\* row.
C26_NotifiesNonNullRecipient == [][send_message_writes(recipient_not_null)]_vars

\* C26 amended: send_message adds exactly one message row, and exactly one
\* notification, of type 'message' and addressed to the recipient, if and only
\* if recipient_id is neither null nor the empty string and differs from
\* sender_id; it changes no other row.
C26_NotifiesNonEmptyRecipient == [][send_message_writes(recipient_not_empty)]_vars

\* messages to another user, to the sender and to the empty string have been
\* stored, and the one notification is the other user's
C26_Witness ==
    /\ \E m \in messages : m.recipient_id = "u2"
    /\ \E m \in messages : m.recipient_id = m.sender_id
    /\ \E m \in messages : m.recipient_id = ""
    /\ Cardinality(notifications) = 1
    /\ \A n \in notifications : n.user_id = "u2" /\ n.type = "message"
    /\ \A s \in Sessions : pc[s] \in {"idle", "done"}

\* (creator_id, member_ids) of the groups made: alice with bob and charlie,
\* bob with himself twice and alice twice, and bob with the id u11
GroupInputs == {<<"u1", <<"u2", "u3">>>>, <<"u2", <<"u2", "u1", "u2", "u1">>>>,
                <<"u2", <<"u11">>>>}

NextGroups ==
    \E s \in Sessions :
        \/ init_database(s)
        \/ create_demo_data(s)
        \/ \E g \in GroupInputs : Cardinality(groups) < MaxGroups /\ create_group(s, g[1], g[2])
        \/ create_group_notify(s)
        \/ busy_step(s)
        \/ Return(s)

SpecGroups == Init /\ [][NextGroups]_vars

(***************************************************************************)
(* Claims about groups                                                     *)
(***************************************************************************)
\* the elements of a list
elements(list) == {list[i] : i \in DOMAIN list}

\* C16: get_user_groups(u) returns exactly the groups whose stored member
\* list has u as an element.
C16_GroupsOfMember ==
    \A u \in GroupUserIds :
        {r.group_id : r \in get_user_groups(u)}
            = {g.group_id : g \in {h \in groups : u \in elements(json_loads(h.member_ids))}}

\* session s executes the INSERT of create_group in this step
Creates(s) ==
    /\ pc[s] = "idle"
    /\ pc'[s] = "cg_notify"
    /\ call'[s].op = "create_group"

\* C17: create_group(name, description, creator, member_ids) stores one group
\* whose admin_ids is [creator] and whose member_ids holds the creator and
\* every id of the argument, each once, and no other id.
C17_CreatorAndMembersOnce ==
    [][\A s \in Sessions :
          Creates(s) =>
              \E g \in groups' \ groups :
                  LET stored == json_loads(g.member_ids)
                  IN  /\ groups' = groups \cup {g}
                      /\ g.group_id = call'[s].group_id
                      /\ json_loads(g.admin_ids) = <<call'[s].creator_id>>
                      /\ elements(stored) = {call'[s].creator_id}
                                                \cup elements(call'[s].member_ids)
                      /\ \A i, j \in DOMAIN stored : i # j => stored[i] # stored[j]]_vars

\* a group made without its creator in the argument, and one made with the
\* creator and a member repeated in it, are stored
C17_Witness ==
    /\ \E g \in groups : /\ g.creator_id = "u1"
                          /\ elements(json_loads(g.member_ids)) = {"u1", "u2", "u3"}
    /\ \E g \in groups : /\ g.creator_id = "u2"
                          /\ Len(json_loads(g.member_ids)) = 2
    /\ \E s \in Sessions : /\ pc[s] = "done"
                            /\ call[s].op = "create_group"
                            /\ call[s].member_ids = <<"u2", "u1", "u2", "u1">>

\* session s takes one turn of create_group's loop over member_ids
Visits(s) ==
    /\ pc[s] = "cg_notify"
    /\ call'[s].next = call[s].next + 1

\* C27: create_group creates exactly one 'group_added' notification for each
\* distinct member other than the creator, and none for the creator, whatever
\* member_ids is passed, one that repeats an id included: a turn of the loop
\* adds a notification, for the id it visits, exactly when that id is not the
\* creator's and has not been visited before.
C27_OneNotificationPerMember ==
    [][\A s \in Sessions :
          Visits(s) =>
              LET c == call[s]
                  member_id == c.member_ids[c.next]
                  visited == {c.member_ids[j] : j \in 1 .. c.next - 1}
              IN  IF member_id # c.creator_id /\ member_id \notin visited
                  THEN \E n \in notifications' :
                           /\ n \notin notifications
                           /\ n.type = "group_added"
                           /\ n.user_id = member_id
                           /\ notifications' = notifications \cup {n}
                  ELSE notifications' = notifications]_vars

(***************************************************************************)
(* Every table at once                                                     *)
(***************************************************************************)
\* the number of rows stored
StoredRows ==
    Cardinality(users) + Cardinality(messages) + Cardinality(contacts)
        + Cardinality(friend_requests) + Cardinality(groups) + Cardinality(notifications)

\* one session that calls every writing operation
NextStore ==
    \/ init_database("s1")
    \/ create_demo_data("s1")
    \/ StoredRows < MaxRows /\ create_user("s1", "eve", "eve@example.com", "hunter2")
    \/ authenticate_user("s1", "alice", "password123")
    \/ update_user_status("s1", "u1", "offline")
    \/ \E p \in FriendPairs : StoredRows < MaxRows /\ send_friend_request("s1", p[1], p[2])
    \/ send_friend_request_notify("s1")
    \/ \E i \in RequestIds, r \in Responses : respond_to_friend_request("s1", i, r)
    \/ respond_update("s1")
    \/ respond_notify("s1")
    \/ StoredRows < MaxRows /\ send_message("s1", "u1", "u2", None)
    \/ send_message_insert("s1")
    \/ send_message_notify("s1")
    \/ StoredRows < MaxRows /\ create_group("s1", "u1", <<"u2">>)
    \/ create_group_notify("s1")
    \/ \E n \in 1 .. 2 : mark_notification_read("s1", n)
    \/ Return("s1")

SpecStore == Init /\ [][NextStore]_vars

\* every row of the table is in the table afterwards, under the same key
kept(table, after, key(_)) == \A r \in table : \E q \in after : key(q) = key(r)

user_key(r) == r.user_id
message_key(r) == r.message_id
contact_key(r) == <<r.user_id, r.contact_id>>
request_key(r) == r.id
group_key(r) == r.group_id
notification_key(r) == r.notification_id

\* C20: no step removes a stored row: every row of users, messages, contacts,
\* friend_requests, groups and notifications is stored, under the same key,
\* after the step.
C20_RowsAreNeverRemoved ==
    [][/\ kept(users, users', user_key)
       /\ kept(messages, messages', message_key)
       /\ kept(contacts, contacts', contact_key)
       /\ kept(friend_requests, friend_requests', request_key)
       /\ kept(groups, groups', group_key)
       /\ kept(notifications, notifications', notification_key)]_vars

\* every table has rows, and rows have been updated in place: a notification
\* is read and alice is offline
C20_Witness ==
    /\ messages # {}
    /\ contacts # {}
    /\ friend_requests # {}
    /\ groups # {}
    /\ \E n \in notifications : n.is_read
    /\ \E u \in users : u.user_id = "u1" /\ u.online_status = "offline"

(***************************************************************************)
(* The application in two browser sessions                                 *)
(***************************************************************************)
\* what is typed into the login form: alice and bob with their passwords, and
\* alice with a wrong one
LoginInputs == {<<"alice", "password123">>, <<"bob", "password123">>, <<"alice", "hunter2">>}

\* the ids a list may offer to open: a group and a user
ChatIds == {GroupId, "u2"}

\* alice and bob log in and out in either session, and the pages rerun
NextPresence ==
    \E s \in Sessions :
        \/ init_database(s)
        \/ create_demo_data(s)
        \/ \E l \in LoginInputs : render_login_form(s, l[1], l[2])
        \/ run(s)
        \/ logout(s)
        \/ Return(s)

SpecPresence == Init /\ [][NextPresence]_vars

\* C21: the stored online_status of a user changes only at that user's login,
\* to 'online', and logout, to 'offline': after a session of the user has
\* logged out the status stays 'offline' until the user's next successful
\* login, whatever the other sessions do.
C21_StatusChangesAtLoginAndLogout ==
    [][\A u \in users : \A v \in users' :
          (v.user_id = u.user_id /\ v.online_status # u.online_status) =>
              \E s \in Sessions :
                  IF v.online_status = "online"
                  THEN /\ session_state[s].user = None
                       /\ session_state'[s].user = u.user_id
                  ELSE /\ session_state[s].user = u.user_id
                       /\ session_state'[s].user = None]_vars


\* alice uses the first session and bob the second: alice asks bob to be her
\* friend, bob's pages rerun and he accepts or declines what they offer
CacheLogins == {<<"s1", "alice">>, <<"s2", "bob">>}

NextCache ==
    \/ \E s \in Sessions :
           \/ init_database(s)
           \/ create_demo_data(s)
           \/ run(s)
           \/ elapse(s)
           \/ send_friend_request_notify(s)
           \/ Return(s)
    \/ \E l \in CacheLogins : render_login_form(l[1], l[2], "password123")
    \/ render_friend_search("s1", "u2")
    \/ \E i \in RequestIds, r \in Answers : render_friend_requests("s2", i, r)

SpecCache == Init /\ [][NextCache]_vars

\* C28: at the end of every rerun for a logged-in user the session's cached
\* contacts, friend_requests, notifications and groups are what the database
\* returns at that moment; in particular a request the user has accepted or
\* declined is no longer offered on the next rerun.
C28_CachesAreCurrent ==
    [][\A s \in Sessions :
          Ran(s, "run") =>
              /\ session_state'[s].contacts = (fetched(session_state[s].user).contacts)'
              /\ session_state'[s].friend_requests =
                     (fetched(session_state[s].user).friend_requests)'
              /\ session_state'[s].notifications =
                     (fetched(session_state[s].user).notifications)'
              /\ session_state'[s].groups = (fetched(session_state[s].user).groups)'
              /\ \A r \in friend_requests' :
                     r.status \in Answers => r.id \notin session_state'[s].friend_requests]_vars

\* alice and bob in their sessions: alice asks bob to be her friend, bob
\* answers, a group of the two is made by a direct call of create_group (the
\* form cannot make one without a contact to select), and both open what
\* their lists offer and write on the chats page
NextChat ==
    \/ \E s \in Sessions :
           \/ init_database(s)
           \/ create_demo_data(s)
           \/ run(s)
           \/ elapse(s)
           \/ send_friend_request_notify(s)
           \/ create_group_notify(s)
           \/ \E id \in ChatIds : set_active_chat(s, id)
           \/ clock < MaxMessages /\ render_chat_page(s)
           \/ Return(s)
    \/ \E l \in CacheLogins : render_login_form(l[1], l[2], "password123")
    \/ render_friend_search("s1", "u2")
    \/ \E i \in RequestIds, r \in Answers : render_friend_requests("s2", i, r)
    \/ groups = {} /\ create_group("s1", "u1", <<"u2">>)

SpecChat == Init /\ [][NextChat]_vars

NextDirect ==
    \/ init_database("s1")
    \/ create_demo_data("s1")
    \/ clock < MaxDirect /\ send_message("s1", "u1", "u2", None)
    \/ send_message_insert("s1")
    \/ send_message_notify("s1")
    \/ Return("s1")

SpecDirect == Init /\ [][NextDirect]_vars

Next ==
    \/ NextUsers
    \/ NextLogin
    \/ NextFriends
    \/ NextRequests
    \/ NextContacts
    \/ NextMessages
    \/ NextSend
    \/ NextNotify
    \/ NextDirect
    \/ NextPresence
    \/ NextCache
    \/ NextChat
    \/ NextGroups
    \/ NextStore

Spec == Init /\ [][Next]_vars
=============================================================================
